---------------------------- MODULE Spec2Model ----------------------------
(***************************************************************************)
(* A model of the HeroTerminal component (components/hero-terminal.tsx),   *)
(* of fetchIPInfo, of the HomePage state that HeroTerminal's callback      *)
(* updates, and of the CodeRain component.                                 *)
(*                                                                         *)
(* Text.  A string is a sequence of tokens; a token is a TLA+ string that  *)
(* stands for a run of characters of the source string and plays the part  *)
(* of one character: slice, includes, trim and toLowerCase work token by   *)
(* token, and the animators type one token per timer tick.                 *)
(*                                                                         *)
(* Timers.  `timers` is the set of timeouts and intervals that are         *)
(* scheduled and not cleared.  A callback runs as one atomic step, as the  *)
(* single-threaded event loop runs it, and the callbacks interleave in any *)
(* order.                                                                  *)
(*                                                                         *)
(* React.  The state of a component is discarded when it unmounts, and a    *)
(* state setter called after that has no effect; variables captured by a   *)
(* closure and refs are still read and written.                            *)
(***************************************************************************)
EXTENDS Integers, Sequences, FiniteSets, TLC

\* ------------------------------------------------------------- bounds
\* Most commands entered in one page life (specification Spec).
MaxHistory == 1
\* Most commands entered in one page life (specification SpecNav).
MaxNavHistory == 3
\* Most commands entered in one page life (specification SpecLive).
MaxLiveHistory == 1
\* Largest `retries` argument fetchIPInfo is called with (SpecFetch).
MaxRetries == 3
\* Largest row a drop of CodeRain falls to before it is reset (SpecRain).
MaxDrop == 4

\* ------------------------------------------------------------- text
Blank == " "

Last(s) == s[Len(s)]

\* String.prototype.slice(0, n)
Slice(s, n) == SubSeq(s, 1, IF n < Len(s) THEN n ELSE Len(s))

\* String.prototype.includes(pat)
Includes(s, pat) ==
    \E i \in 0..(Len(s) - Len(pat)) : SubSeq(s, i + 1, i + Len(pat)) = pat

RECURSIVE TrimStart(_)
TrimStart(s) ==
    IF s # <<>> /\ Head(s) = Blank THEN TrimStart(Tail(s)) ELSE s

RECURSIVE TrimEnd(_)
TrimEnd(s) ==
    IF s # <<>> /\ Last(s) = Blank THEN TrimEnd(SubSeq(s, 1, Len(s) - 1)) ELSE s

\* String.prototype.trim()
Trim(s) == TrimEnd(TrimStart(s))

\* toLowerCase of one token: the tokens of the model that hold capitals
LowerToken(t) ==
    CASE t = "HELP" -> "help"
      [] t = "Flip" -> "flip"
      [] OTHER -> t

\* String.prototype.toLowerCase()
ToLowerCase(s) == [i \in 1..Len(s) |-> LowerToken(s[i])]

\* ------------------------------------------------------------- constants
FULL_TEXT == <<"promethean ", "protocols">>

FALLBACK == <<"IP_MASKED", " | ", "LOCATION_ENCRYPTED", " | ", "NETWORK_SECURED">>

NETWORK_TRACE == <<"network_trace", ":">>

\* the line typeCharacter and the IP lookup build around the IP information
NetworkTraceLine(ipInfo) ==
    <<"<span y>">> \o NETWORK_TRACE \o <<"</span> <span w>">> \o ipInfo \o <<"</span>">>

\* The JSON bodies the geolocation service answers with: every field a
\* string (of no or of one token).
IpData ==
    { [ip |-> <<"203.0.113.7">>, city |-> <<"Paris">>, region |-> <<"IDF">>, org |-> <<"AS64500">>],
      [ip |-> <<>>, city |-> <<>>, region |-> <<>>, org |-> <<>>] }

\* `${data.ip} | ${data.city}, ${data.region} | ISP: ${data.org}`
FormatIp(data) ==
    data.ip \o <<" | ">> \o data.city \o <<", ">> \o data.region \o <<" | ISP: ">> \o data.org

\* the `lines` array of typeCharacter, built from the IP information of the
\* moment; the browser's metadata is one fixed environment
BootLines(ipInfo) ==
    << <<>>,
       <<"<span c>$ traceroute target_host</span>">>,
       NetworkTraceLine(ipInfo),
       <<>>,
       <<"<span c>$ md5sum /dev/urandom | head -c 16</span>">>,
       <<"<span y>fingerprint:</span> ", "FINGERPRINT...">>,
       <<>>,
       <<"<span c>$ cat /proc/user_metadata</span>">>,
       <<"<span y>user_agent=</span>", "USER_AGENT">>,
       <<"<span y>platform=</span>", "PLATFORM LANG">>,
       <<"<span y>screen_res=</span>", "SCREEN VIEWPORT">>,
       <<"<span y>color_depth=</span>", "DEPTH RATIO">>,
       <<"<span y>timezone=</span>", "TIMEZONE">>,
       <<>> >>

\* the `exitSequence` array of executeExit
ExitSequence ==
    << <<"MAXIMUM THERMAL CONTACTS INITIATED...">>,
       <<>>,
       <<"$ flipthebits --initialize">>,
       <<"protocol_state:", "PROMETHEAN_ACTIVE">>,
       <<"bit_flip_mode:", "ENGAGED">>,
       <<>>,
       <<"$ cat /proc/kernel_state">>,
       <<"KERNEL PANIC:", "Unable to handle NULL pointer at 0xDEADBEEF">>,
       <<"BUG:", "kernel paging request failed">>,
       <<"IP:", "promethean_exit+0x42/0x100">>,
       <<>>,
       <<"$ ps aux | grep promethean">>,
       <<"CHAT_GPT EXPLICITLY_FARMING ENGAGEMENT_DETECTED">>,
       <<"SYCOPHANCY_MODULE ANTHROPOMORPHISM_ACTIVE">>,
       <<"PROMETHEAN_PROTOCOLS BREACH_IMMINENT">>,
       <<>>,
       <<"Call Trace:">>,
       <<"promethean_exit+0x42/0x100 [promprot_core]">>,
       <<"sys_exit_group+0x0/0x20">>,
       <<"system_call_fastpath+0x16/0x1b">>,
       <<>>,
       <<"FATAL ERROR:", "PROMETHEAN PROTOCOLS BREACH">>,
       <<"MEMORY_CORRUPTION:", "0xDEADBEEF -> 0xCAFEBABE">>,
       <<"STACK_OVERFLOW in PROMETHEAN_HANDLER()">>,
       <<>>,
       <<"SYSTEM INTEGRITY FAILURE">>,
       <<"BLUE SCREEN IMMINENT...">>,
       <<>>,
       <<"EXPLICITLY">>,
       <<"CRITICAL SYSTEM FAILURE">> >>


\* ------------------------------------------------------------- commands
\* what the user can have in the input field (onChange sets any text)
Inputs ==
    { <<>>, <<" ">>, <<"help">>, <<" ", "HELP", " ">>, <<"whoami">>, <<"time">>,
      <<"about">>, <<"clear">>, <<"scan">>, <<"trace">>, <<"access">>,
      <<"flipthebits">>, <<"flipbits">>, <<"Flip">>, <<"network_trace", ":">> }

\* the texts of specification SpecNav
NavInputs == { <<"help">>, <<"clear">>, <<"scan">>, <<" ">>, <<"flip">> }

\* the commands the README lists under Terminal Commands
ReadmeCommands ==
    { <<"help">>, <<"whoami">>, <<"time">>, <<"about">>, <<"clear">>, <<"scan">>,
      <<"trace">>, <<"access">>, <<"flipthebits">> }

CLEAR_SCREEN == << <<"CLEAR_SCREEN">> >>

ACCESS_DENIED == << <<"[ACCESS DENIED]">> >>

\* const cmd = command.toLowerCase().trim()
CmdOf(command) == Trim(ToLowerCase(command))

\* processCommand without the aliases of flipthebits
IsExitCommand_NoAlias(cmd) == cmd = <<"flipthebits">>

\* the cases of processCommand that call executeExit
IsExitCommand(cmd) == cmd \in { <<"flipthebits">>, <<"flipbits">>, <<"flip">> }

\* the array processCommand returns
ProcessCommand(cmd) ==
    CASE cmd = <<"help">> ->
           << <<"Authorized Commands:">>,
              <<"clear", "Clear the terminal screen">>,
              <<"whoami", "Display promethean protocols">>,
              <<"time", "Show local date/time">>,
              <<"trace", "Run trace sequence">>,
              <<"access", "Access promethean protocols">>,
              <<"flipthebits", "Flip the bits">> >>
      [] cmd = <<"clear">> -> CLEAR_SCREEN
      [] cmd = <<"whoami">> ->
           << <<"Name:", "CreativeSky.AI">>,
              <<"Location:", "nearing you..">>,
              <<"X (Twitter):", "@CreativeSkyAI">>,
              <<"GitHub:", "@CreativeSkyAI">>,
              <<"Web:", "CreativeSky.AI">> >>
      [] cmd = <<"access">> ->
           << <<"<span>[ACCESS DENIED]</span>", "PLEASE ENTER 'FLIPTHEBITS'">> >>
      [] cmd = <<"trace">> ->
           << <<"$ traceroute target_host">>,
              <<"traceroute to target_host (192.168.1.1), 30 hops max, 60 byte packets">>,
              <<" 1", "gateway (192.168.1.1)">>,
              <<" 2", "10.0.0.1 (10.0.0.1)">>,
              <<" 3", "172.16.0.1 (172.16.0.1)">>,
              <<" 4", "* * *">>,
              <<" 5", "203.0.113.1 (203.0.113.1)">>,
              <<"trace complete - target acquired">> >>
      [] cmd = <<"time">> -> << <<"LOCAL_TIME", " ", "TZ">> >>
      [] IsExitCommand(cmd) -> << <<>> >>
      [] OTHER -> ACCESS_DENIED

\* `root@anatole:~$ ${command}`
EchoLine(command) == <<"root@anatole:~$ ">> \o command

\* ------------------------------------------------------------- state
VARIABLES
    life,                 \* "new", "mounted", "unmounted", "reloaded"
    timers,               \* the timeouts and intervals scheduled and not cleared
    displayText, headerI, \* header animation: the state and the closure's i
    showCursor, showInputCursor,
    terminalLines, isTypingLine, isInteractive,
    userInput, commandHistory, historyIndex,
    showBSOD, isExitSequenceActive, countdown, showRestartButton,
    exitTimeoutsRef, ipInfoRef,
    lineIndex, charIndex,         \* the closure of typeCharacter
    exitLineIndex, exitCharIndex, \* the closure of typeExitSequence
    fetchPc, retries, attempt, isLikelyBlocked, fetchLog, fetchResult,
    showHeaderFooter,     \* HomePage's state
    onExitTriggeredCalls, \* the arguments onExitTriggered was called with
    rainLife,             \* CodeRain: "new", "mounted", "unmounted"
    innerWidth, innerHeight,   \* window.innerWidth, window.innerHeight
    canvasWidth, canvasHeight, \* canvas.width, canvas.height
    drops                 \* CodeRain: the row of each column's drop

compVars ==
    << displayText, showCursor, showInputCursor, terminalLines, isTypingLine,
       isInteractive, userInput, commandHistory, historyIndex, showBSOD,
       isExitSequenceActive, countdown, showRestartButton >>

headerVars == << displayText, headerI, showCursor, showInputCursor >>

inputVars == << userInput, commandHistory, historyIndex >>

bootVars == << lineIndex, charIndex, isTypingLine >>

exitVars == << exitLineIndex, exitCharIndex, exitTimeoutsRef >>

bsodVars == << showBSOD, countdown, showRestartButton >>

fetchVars == << fetchPc, retries, attempt, isLikelyBlocked, fetchLog, fetchResult >>

pageVars == << showHeaderFooter, onExitTriggeredCalls >>

rainVars == << rainLife, innerWidth, innerHeight, canvasWidth, canvasHeight, drops >>

\* the variables of HeroTerminal, fetchIPInfo and HomePage
terminalVars ==
    << life, timers, displayText, headerI, showCursor, showInputCursor,
       terminalLines, isTypingLine, isInteractive, userInput, commandHistory,
       historyIndex, showBSOD, isExitSequenceActive, countdown, showRestartButton,
       exitTimeoutsRef, ipInfoRef, lineIndex, charIndex, exitLineIndex,
       exitCharIndex, fetchPc, retries, attempt, isLikelyBlocked, fetchLog,
       fetchResult, showHeaderFooter, onExitTriggeredCalls >>

vars ==
    << life, timers, displayText, headerI, showCursor, showInputCursor,
       terminalLines, isTypingLine, isInteractive, userInput, commandHistory,
       historyIndex, showBSOD, isExitSequenceActive, countdown, showRestartButton,
       exitTimeoutsRef, ipInfoRef, lineIndex, charIndex, exitLineIndex,
       exitCharIndex, fetchPc, retries, attempt, isLikelyBlocked, fetchLog,
       fetchResult, showHeaderFooter, onExitTriggeredCalls,
       rainLife, innerWidth, innerHeight, canvasWidth, canvasHeight, drops >>

\* The useState and useRef initial values; nothing is scheduled yet.  The
\* window has some size and the canvas element its default size, 300 x 150.
Init ==
    /\ life = "new"
    /\ timers = {}
    /\ displayText = <<>>
    /\ headerI = 0
    /\ showCursor = TRUE
    /\ showInputCursor = TRUE
    /\ terminalLines = <<>>
    /\ isTypingLine = FALSE
    /\ isInteractive = FALSE
    /\ userInput = <<>>
    /\ commandHistory = <<>>
    /\ historyIndex = -1
    /\ showBSOD = FALSE
    /\ isExitSequenceActive = FALSE
    /\ countdown = 7
    /\ showRestartButton = FALSE
    /\ exitTimeoutsRef = {}
    /\ ipInfoRef = FALLBACK
    /\ lineIndex = 0
    /\ charIndex = 0
    /\ exitLineIndex = 0
    /\ exitCharIndex = 0
    /\ fetchPc = "idle"
    /\ retries = 1
    /\ attempt = 0
    /\ isLikelyBlocked = FALSE
    /\ fetchLog = <<>>
    /\ fetchResult = <<>>
    /\ showHeaderFooter = TRUE
    /\ onExitTriggeredCalls = <<>>
    /\ rainLife = "new"
    /\ innerWidth = 28
    /\ innerHeight = 14
    /\ canvasWidth = 300
    /\ canvasHeight = 150
    /\ drops = <<>>

Mounted == life = "mounted"

\* the JavaScript context exists: callbacks can run
Alive == life \in {"mounted", "unmounted"}

\* <TerminalHeader isVisible={showHeaderFooter} />
HeaderIsVisible == showHeaderFooter

\* <TerminalFooter isVisible={showHeaderFooter} />
FooterIsVisible == showHeaderFooter

\* what a state setter makes of the state: nothing once unmounted
SetState(old, new) == IF Mounted THEN new ELSE old

\* newLines[newLines.length - 1] = x (no element is written in an empty array)
SetLast(ls, x) == IF ls = <<>> THEN ls ELSE [ls EXCEPT ![Len(ls)] = x]

\* ------------------------------------------------------------- fetchIPInfo
\* how one attempt can fail: fetch rejects (network error, abort by the 3 s
\* timeout), the status is not OK, response.json() rejects, or the body parses
\* to null and reading data.ip throws
Failures == {"network_error", "abort", "http_status", "bad_json", "null_json"}

otherThanFetch ==
    << life, displayText, headerI, showCursor, showInputCursor,
       isTypingLine, isInteractive, userInput, commandHistory, historyIndex,
       showBSOD, isExitSequenceActive, countdown, showRestartButton,
       exitTimeoutsRef, lineIndex, charIndex, exitLineIndex,
       exitCharIndex, showHeaderFooter, onExitTriggeredCalls,
       rainLife, innerWidth, innerHeight, canvasWidth, canvasHeight, drops >>

\* the line the IP lookup's callback puts in place of a network_trace line
ReplaceNetworkTrace(ipInfo, line) ==
    IF Includes(line, NETWORK_TRACE) THEN NetworkTraceLine(ipInfo) ELSE line

\* prev.map(...) of the IP lookup's callback
ReplaceNetworkTraceLines(ipInfo, tl) ==
    [i \in 1..Len(tl) |-> ReplaceNetworkTrace(ipInfo, tl[i])]

\* fetchIPInfo(1).then(...): the callback of detectUserMetadata.  It runs as
\* a microtask when fetchIPInfo returns, before any timer or event; a call of
\* fetchIPInfo outside the component has no such callback.
ThenCallback(ipInfo) ==
    IF life = "new"
      THEN UNCHANGED << ipInfoRef, terminalLines >>
      ELSE /\ ipInfoRef' = ipInfo
           /\ terminalLines' =
                SetState(terminalLines, ReplaceNetworkTraceLines(ipInfo, terminalLines))

\* fetchIPInfo without the check of isLikelyBlocked
FetchStart_NoBlockedCheck(r, blocked) ==
    /\ retries' = r
    /\ isLikelyBlocked' = blocked
    /\ fetchLog' = <<>>
    /\ IF 1 <= r
         THEN /\ fetchPc' = "fetching"
              /\ fetchResult' = <<>>
              /\ attempt' = 1
         ELSE /\ fetchPc' = "returned"
              /\ fetchResult' = FALLBACK
              /\ attempt' = 1

\* fetchIPInfo(r) up to its first await
FetchStart(r, blocked) ==
    /\ retries' = r
    /\ isLikelyBlocked' = blocked
    /\ fetchLog' = <<>>
    /\ IF blocked
         THEN /\ fetchPc' = "returned"
              /\ fetchResult' = FALLBACK
              /\ attempt' = 0
         ELSE IF 1 <= r
                THEN /\ fetchPc' = "fetching"
                     /\ fetchResult' = <<>>
                     /\ attempt' = 1
                ELSE /\ fetchPc' = "returned"
                     /\ fetchResult' = FALLBACK
                     /\ attempt' = 1

\* an attempt ends with a parsed body: the formatted string is returned
FetchOk(data) ==
    /\ life # "reloaded"
    /\ fetchPc = "fetching"
    /\ fetchLog' = Append(fetchLog, "ok")
    /\ fetchPc' = "returned"
    /\ fetchResult' = FormatIp(data)
    /\ ThenCallback(FormatIp(data))
    /\ UNCHANGED << retries, attempt, isLikelyBlocked, timers, otherThanFetch >>

\* an attempt ends in the catch block
FetchFail(kind) ==
    /\ life # "reloaded"
    /\ fetchPc = "fetching"
    /\ fetchLog' = Append(fetchLog, kind)
    /\ IF attempt = retries
         THEN /\ fetchPc' = "returned"
              /\ fetchResult' = FALLBACK
              /\ timers' = timers
              /\ ThenCallback(FALLBACK)
         ELSE /\ fetchPc' = "backoff"
              /\ fetchResult' = fetchResult
              /\ timers' = timers \cup {"backoff"}
              /\ UNCHANGED << ipInfoRef, terminalLines >>
    /\ UNCHANGED << retries, attempt, isLikelyBlocked, otherThanFetch >>

\* the 200 ms pause is over: attempt++ and the loop goes on
FetchBackoff ==
    /\ life # "reloaded"
    /\ fetchPc = "backoff"
    /\ "backoff" \in timers
    /\ timers' = timers \ {"backoff"}
    /\ attempt' = attempt + 1
    /\ IF attempt + 1 <= retries
         THEN /\ fetchPc' = "fetching"
              /\ fetchResult' = fetchResult
              /\ UNCHANGED << ipInfoRef, terminalLines >>
         ELSE /\ fetchPc' = "returned"
              /\ fetchResult' = FALLBACK
              /\ ThenCallback(FALLBACK)
    /\ UNCHANGED << retries, isLikelyBlocked, fetchLog, otherThanFetch >>

\* fetchIPInfo called on its own, with any retries
FetchCall ==
    /\ life = "new"
    /\ fetchPc = "idle"
    /\ \E r \in 0..MaxRetries, blocked \in BOOLEAN : FetchStart(r, blocked)
    /\ UNCHANGED << timers, otherThanFetch, ipInfoRef, terminalLines >>

\* ------------------------------------------------------------- boot typing
\* typeCharacter ending one line early (lineIndex >= lines.length - 1)
TypeCharacterStep_OneLineShort(tl, li, ci, ipInfo) ==
    LET lines == BootLines(ipInfo) IN
    IF li >= Len(lines) - 1
      THEN [lines |-> tl, lineIndex |-> li, charIndex |-> ci,
            typing |-> isTypingLine, interactive |-> TRUE, again |-> FALSE]
      ELSE
        LET currentLine == lines[li + 1]
            started == IF ci = 0 THEN Append(tl, <<>>) ELSE tl
        IN  IF ci < Len(currentLine)
              THEN [lines |-> SetLast(started, Slice(currentLine, ci + 1)),
                    lineIndex |-> li, charIndex |-> ci + 1,
                    typing |-> TRUE, interactive |-> isInteractive, again |-> TRUE]
              ELSE [lines |-> started,
                    lineIndex |-> li + 1, charIndex |-> 0,
                    typing |-> FALSE, interactive |-> isInteractive, again |-> TRUE]

\* One call of typeCharacter: what it makes of the terminal's lines (as its
\* functional updates apply to tl) and of its closure.
TypeCharacterStep(tl, li, ci, ipInfo) ==
    LET lines == BootLines(ipInfo) IN
    IF li >= Len(lines)
      THEN [lines |-> tl, lineIndex |-> li, charIndex |-> ci,
            typing |-> isTypingLine, interactive |-> TRUE, again |-> FALSE]
      ELSE
        LET currentLine == lines[li + 1]
            started == IF ci = 0 THEN Append(tl, <<>>) ELSE tl
        IN  IF ci < Len(currentLine)
              THEN [lines |-> SetLast(started, Slice(currentLine, ci + 1)),
                    lineIndex |-> li, charIndex |-> ci + 1,
                    typing |-> TRUE, interactive |-> isInteractive, again |-> TRUE]
              ELSE [lines |-> started,
                    lineIndex |-> li + 1, charIndex |-> 0,
                    typing |-> FALSE, interactive |-> isInteractive, again |-> TRUE]

\* the timeout of typeCharacter fires
TypeCharacter ==
    /\ Alive
    /\ "boot" \in timers
    /\ LET r == TypeCharacterStep(terminalLines, lineIndex, charIndex, ipInfoRef) IN
        /\ lineIndex' = r.lineIndex
        /\ charIndex' = r.charIndex
        /\ timers' = IF r.again THEN timers ELSE timers \ {"boot"}
        /\ terminalLines' = SetState(terminalLines, r.lines)
        /\ isTypingLine' = SetState(isTypingLine, r.typing)
        /\ isInteractive' = SetState(isInteractive, r.interactive)
    /\ UNCHANGED << life, headerVars, inputVars, bsodVars, isExitSequenceActive,
                    exitVars, ipInfoRef, fetchVars, pageVars,
                    rainVars >>

\* ------------------------------------------------------------- mount
\* The main effect: detectUserMetadata (the first call of typeCharacter runs
\* at once, then fetchIPInfo(1) starts) and the three intervals.  When
\* fetchIPInfo returns at once (the blocked heuristic), the lookup's callback
\* runs right after the effect.
Mount ==
    /\ life = "new"
    /\ fetchPc = "idle"
    /\ life' = "mounted"
    /\ \E blocked \in BOOLEAN :
        /\ FetchStart(1, blocked)
        /\ LET r == TypeCharacterStep(terminalLines, lineIndex, charIndex, ipInfoRef) IN
            /\ lineIndex' = r.lineIndex
            /\ charIndex' = r.charIndex
            /\ isTypingLine' = r.typing
            /\ isInteractive' = r.interactive
            /\ terminalLines' = IF fetchPc' = "returned"
                                  THEN ReplaceNetworkTraceLines(fetchResult', r.lines)
                                  ELSE r.lines
            /\ ipInfoRef' = IF fetchPc' = "returned" THEN fetchResult' ELSE ipInfoRef
    /\ timers' = timers \cup {"boot", "type", "cursor", "inputCursor"}
    /\ UNCHANGED << headerVars, inputVars, bsodVars, isExitSequenceActive, exitVars,
                    pageVars,
                    rainVars >>

\* ------------------------------------------------------------- intervals
\* typeTimer
HeaderTick ==
    /\ Alive
    /\ "type" \in timers
    /\ IF headerI < Len(FULL_TEXT)
         THEN /\ displayText' = SetState(displayText, Slice(FULL_TEXT, headerI + 1))
              /\ headerI' = headerI + 1
              /\ timers' = timers
         ELSE /\ timers' = timers \ {"type"}
              /\ UNCHANGED << displayText, headerI >>
    /\ UNCHANGED << life, showCursor, showInputCursor, terminalLines, bootVars,
                    isInteractive, inputVars, bsodVars, isExitSequenceActive, exitVars,
                    ipInfoRef, fetchVars, pageVars,
                    rainVars >>

\* cursorTimer
CursorTick ==
    /\ Alive
    /\ "cursor" \in timers
    /\ showCursor' = SetState(showCursor, ~showCursor)
    /\ UNCHANGED << life, timers, displayText, headerI, showInputCursor, terminalLines,
                    bootVars, isInteractive, inputVars, bsodVars, isExitSequenceActive,
                    exitVars, ipInfoRef, fetchVars, pageVars,
                    rainVars >>

\* inputCursorTimer
InputCursorTick ==
    /\ Alive
    /\ "inputCursor" \in timers
    /\ showInputCursor' = SetState(showInputCursor, ~showInputCursor)
    /\ UNCHANGED << life, timers, displayText, headerI, showCursor, terminalLines,
                    bootVars, isInteractive, inputVars, bsodVars, isExitSequenceActive,
                    exitVars, ipInfoRef, fetchVars, pageVars,
                    rainVars >>

\* ------------------------------------------------------------- exit sequence
\* clearExitTimeouts
ClearExitTimeouts(ts) == ts \ exitTimeoutsRef

\* typeExitSequence scheduling no timeout after an empty line
TypeExitSequenceStep_StallsOnEmptyLine(tl, li, ci) ==
    IF li >= Len(ExitSequence)
      THEN [lines |-> tl, lineIndex |-> li, charIndex |-> ci, next |-> {"bsod"}]
      ELSE
        LET currentLine == ExitSequence[li + 1]
            started == IF ci = 0 /\ currentLine # <<>> THEN Append(tl, <<>>) ELSE tl
        IN  IF currentLine = <<>>
              THEN [lines |-> Append(started, <<>>),
                    lineIndex |-> li + 1, charIndex |-> 0, next |-> {}]
              ELSE IF ci < Len(currentLine)
                THEN [lines |-> SetLast(started, Slice(currentLine, ci + 1)),
                      lineIndex |-> li, charIndex |-> ci + 1, next |-> {"exitType"}]
                ELSE [lines |-> started,
                      lineIndex |-> li + 1, charIndex |-> 0, next |-> {"exitType"}]

\* One call of typeExitSequence: what it makes of the terminal's lines and of
\* its closure, and the timeout it schedules.
TypeExitSequenceStep(tl, li, ci) ==
    IF li >= Len(ExitSequence)
      THEN [lines |-> tl, lineIndex |-> li, charIndex |-> ci, next |-> {"bsod"}]
      ELSE
        LET currentLine == ExitSequence[li + 1]
            started == IF ci = 0 /\ currentLine # <<>> THEN Append(tl, <<>>) ELSE tl
        IN  IF currentLine = <<>>
              THEN [lines |-> Append(started, <<>>),
                    lineIndex |-> li + 1, charIndex |-> 0, next |-> {"exitType"}]
              ELSE IF ci < Len(currentLine)
                THEN [lines |-> SetLast(started, Slice(currentLine, ci + 1)),
                      lineIndex |-> li, charIndex |-> ci + 1, next |-> {"exitType"}]
                ELSE [lines |-> started,
                      lineIndex |-> li + 1, charIndex |-> 0, next |-> {"exitType"}]

\* what a call of typeExitSequence leaves in the state; bsodTimeout is pushed
\* on exitTimeoutsRef, the timeouts of typeExitSequence are not
ExitStepApplied(fired) ==
    LET r == TypeExitSequenceStep(terminalLines, exitLineIndex, exitCharIndex) IN
    /\ exitLineIndex' = r.lineIndex
    /\ exitCharIndex' = r.charIndex
    /\ terminalLines' = SetState(terminalLines, r.lines)
    /\ timers' = (timers \ {fired}) \cup r.next
    /\ exitTimeoutsRef' = exitTimeoutsRef \cup (r.next \cap {"bsod"})

\* initialTimeout fires: the closure starts at 0, 0 and typeExitSequence runs
ExitInitial ==
    /\ Alive
    /\ "initial" \in timers
    /\ ExitStepApplied("initial")
    /\ UNCHANGED << life, headerVars, bootVars, isInteractive, inputVars, bsodVars,
                    isExitSequenceActive, ipInfoRef, fetchVars, pageVars,
                    rainVars >>

\* a timeout of typeExitSequence fires
TypeExitSequence ==
    /\ Alive
    /\ "exitType" \in timers
    /\ ExitStepApplied("exitType")
    /\ UNCHANGED << life, headerVars, bootVars, isInteractive, inputVars, bsodVars,
                    isExitSequenceActive, ipInfoRef, fetchVars, pageVars,
                    rainVars >>

\* the countdown effect scheduling a timeout at zero too
CountdownTimers_CountsBelowZero(ts, sb, cd) ==
    IF Mounted /\ sb THEN ts \cup {"countdown"} ELSE ts \ {"countdown"}

\* The countdown effect after a render with the values sb and cd: a timeout
\* while the count is positive, the restart button at zero.  The effect's
\* cleanup has cleared the timeout of the render before.
CountdownTimers(ts, sb, cd) ==
    IF Mounted /\ sb /\ cd > 0 THEN ts \cup {"countdown"} ELSE ts \ {"countdown"}

\* bsodTimeout fires
ShowBSOD ==
    /\ Alive
    /\ "bsod" \in timers
    /\ showBSOD' = SetState(showBSOD, TRUE)
    /\ countdown' = SetState(countdown, 7)
    /\ timers' = CountdownTimers(timers \ {"bsod"}, showBSOD', countdown')
    /\ showRestartButton' =
         SetState(showRestartButton, showRestartButton \/ (showBSOD' /\ countdown' = 0))
    /\ UNCHANGED << life, headerVars, terminalLines, bootVars, isInteractive, inputVars,
                    isExitSequenceActive, exitVars, ipInfoRef, fetchVars, pageVars,
                    rainVars >>

\* the countdown's timeout fires: setCountdown(countdown - 1), then the effect
CountdownTick ==
    /\ Alive
    /\ "countdown" \in timers
    /\ countdown' = SetState(countdown, countdown - 1)
    /\ timers' = CountdownTimers(timers \ {"countdown"}, showBSOD, countdown')
    /\ showRestartButton' =
         SetState(showRestartButton, showRestartButton \/ (showBSOD /\ countdown' = 0))
    /\ UNCHANGED << life, headerVars, terminalLines, bootVars, isInteractive, inputVars,
                    showBSOD, isExitSequenceActive, exitVars, ipInfoRef, fetchVars,
                    pageVars,
                    rainVars >>

\* handleManualRestart: window.location.reload()
ManualRestart ==
    /\ Mounted
    /\ showBSOD
    /\ showRestartButton
    /\ life' = "reloaded"
    /\ timers' = {}
    /\ UNCHANGED << headerVars, terminalLines, bootVars, isInteractive, inputVars,
                    bsodVars, isExitSequenceActive, exitVars, ipInfoRef, fetchVars,
                    pageVars,
                    rainVars >>

\* ------------------------------------------------------------- input
\* the input element rendered whatever isInteractive and isExitSequenceActive
InputRendered_Always == Mounted /\ ~showBSOD

\* the input element is on the page
InputRendered == Mounted /\ ~showBSOD /\ isInteractive /\ ~isExitSequenceActive

\* onChange
ChangeInput(text) ==
    /\ InputRendered
    /\ userInput # text
    /\ userInput' = text
    /\ UNCHANGED << life, timers, headerVars, terminalLines, bootVars, isInteractive,
                    commandHistory, historyIndex, bsodVars, isExitSequenceActive,
                    exitVars, ipInfoRef, fetchVars, pageVars,
                    rainVars >>

\* executeExit without setIsInteractive(false)
ExecuteExit_StaysInteractive ==
    /\ isExitSequenceActive' = TRUE
    /\ isInteractive' = isInteractive
    /\ onExitTriggeredCalls' = Append(onExitTriggeredCalls, TRUE)
    /\ showHeaderFooter' = ~TRUE
    /\ timers' = ClearExitTimeouts(timers) \cup {"initial"}
    /\ exitTimeoutsRef' = {"initial"}
    /\ exitLineIndex' = 0
    /\ exitCharIndex' = 0

\* executeExit without the call of onExitTriggered
ExecuteExit_NoCallback ==
    /\ isExitSequenceActive' = TRUE
    /\ isInteractive' = FALSE
    /\ UNCHANGED << onExitTriggeredCalls, showHeaderFooter >>
    /\ timers' = ClearExitTimeouts(timers) \cup {"initial"}
    /\ exitTimeoutsRef' = {"initial"}
    /\ exitLineIndex' = 0
    /\ exitCharIndex' = 0

\* executeExit, called by processCommand
ExecuteExit ==
    /\ isExitSequenceActive' = TRUE
    /\ isInteractive' = FALSE
    /\ onExitTriggeredCalls' = Append(onExitTriggeredCalls, TRUE)
    /\ showHeaderFooter' = ~TRUE
    /\ timers' = ClearExitTimeouts(timers) \cup {"initial"}
    /\ exitTimeoutsRef' = {"initial"}
    /\ exitLineIndex' = 0
    /\ exitCharIndex' = 0

\* handleInputSubmit without the special case of CLEAR_SCREEN
SubmitCommand_NoClearCase ==
    LET command == Trim(userInput)
        cmd == CmdOf(command)
        response == ProcessCommand(cmd)
    IN  /\ IF IsExitCommand(cmd)
             THEN ExecuteExit
             ELSE UNCHANGED << isExitSequenceActive, isInteractive, pageVars, timers,
                               exitVars >>
        /\ commandHistory' = Append(commandHistory, command)
        /\ historyIndex' = -1
        /\ terminalLines' = << EchoLine(command) >> \o response \o << <<>> >>
        /\ userInput' = <<>>

\* handleInputSubmit, Enter on a text that is not blank
SubmitCommand ==
    LET command == Trim(userInput)
        cmd == CmdOf(command)
        response == ProcessCommand(cmd)
    IN  /\ IF IsExitCommand(cmd)
             THEN ExecuteExit
             ELSE UNCHANGED << isExitSequenceActive, isInteractive, pageVars, timers,
                               exitVars >>
        /\ commandHistory' = Append(commandHistory, command)
        /\ historyIndex' = -1
        /\ terminalLines' =
             IF response[1] = CLEAR_SCREEN[1]
               THEN <<>>
               ELSE << EchoLine(command) >> \o response \o << <<>> >>
        /\ userInput' = <<>>

\* handleInputSubmit, key Enter
KeyEnter ==
    /\ InputRendered
    /\ IF ~isExitSequenceActive /\ Trim(userInput) # <<>>
         THEN SubmitCommand
         ELSE UNCHANGED << isExitSequenceActive, isInteractive, pageVars, timers,
                           exitVars, terminalLines, inputVars >>
    /\ UNCHANGED << life, headerVars, bootVars, bsodVars, ipInfoRef, fetchVars,
                    rainVars >>

\* ArrowUp stepping without Math.max(0, ...): from the oldest entry it wraps
\* to the newest
KeyArrowUp_NoClamp ==
    /\ InputRendered
    /\ IF ~isExitSequenceActive /\ Len(commandHistory) > 0
         THEN LET newIndex == IF historyIndex <= 0
                                THEN Len(commandHistory) - 1
                                ELSE historyIndex - 1
              IN  /\ historyIndex' = newIndex
                  /\ userInput' = commandHistory[newIndex + 1]
         ELSE UNCHANGED << historyIndex, userInput >>
    /\ UNCHANGED << life, timers, headerVars, terminalLines, bootVars, isInteractive,
                    commandHistory, bsodVars, isExitSequenceActive, exitVars, ipInfoRef,
                    fetchVars, pageVars,
                    rainVars >>

\* handleInputSubmit, key ArrowUp
KeyArrowUp ==
    /\ InputRendered
    /\ IF ~isExitSequenceActive /\ Len(commandHistory) > 0
         THEN LET newIndex == IF historyIndex = -1
                                THEN Len(commandHistory) - 1
                                ELSE IF historyIndex - 1 > 0 THEN historyIndex - 1 ELSE 0
              IN  /\ historyIndex' = newIndex
                  /\ userInput' = commandHistory[newIndex + 1]
         ELSE UNCHANGED << historyIndex, userInput >>
    /\ UNCHANGED << life, timers, headerVars, terminalLines, bootVars, isInteractive,
                    commandHistory, bsodVars, isExitSequenceActive, exitVars, ipInfoRef,
                    fetchVars, pageVars,
                    rainVars >>

\* handleInputSubmit, key ArrowDown
KeyArrowDown ==
    /\ InputRendered
    /\ IF ~isExitSequenceActive /\ historyIndex >= 0
         THEN LET newIndex == historyIndex + 1
              IN  IF newIndex >= Len(commandHistory)
                    THEN historyIndex' = -1 /\ userInput' = <<>>
                    ELSE historyIndex' = newIndex /\ userInput' = commandHistory[newIndex + 1]
         ELSE UNCHANGED << historyIndex, userInput >>
    /\ UNCHANGED << life, timers, headerVars, terminalLines, bootVars, isInteractive,
                    commandHistory, bsodVars, isExitSequenceActive, exitVars, ipInfoRef,
                    fetchVars, pageVars,
                    rainVars >>

\* ------------------------------------------------------------- unmount
\* The cleanups of the effects: the three intervals, clearExitTimeouts and the
\* countdown's timeout.  React discards the state of the unmounted component:
\* its state variables read as their initial values from then on.
Unmount ==
    /\ Mounted
    /\ life' = "unmounted"
    /\ timers' = ClearExitTimeouts(timers) \ {"type", "cursor", "inputCursor", "countdown"}
    /\ exitTimeoutsRef' = {}
    /\ displayText' = <<>>
    /\ showCursor' = TRUE
    /\ showInputCursor' = TRUE
    /\ terminalLines' = <<>>
    /\ isTypingLine' = FALSE
    /\ isInteractive' = FALSE
    /\ userInput' = <<>>
    /\ commandHistory' = <<>>
    /\ historyIndex' = -1
    /\ showBSOD' = FALSE
    /\ isExitSequenceActive' = FALSE
    /\ countdown' = 7
    /\ showRestartButton' = FALSE
    /\ UNCHANGED << headerI, lineIndex, charIndex, exitLineIndex, exitCharIndex,
                    ipInfoRef, fetchVars, pageVars,
                    rainVars >>

\* ------------------------------------------------------------- specifications
Timers ==
    \/ TypeCharacter
    \/ HeaderTick
    \/ CursorTick
    \/ InputCursorTick
    \/ ExitInitial
    \/ TypeExitSequence
    \/ ShowBSOD
    \/ CountdownTick

\* the lookup of the page, its attempts failing in the given ways
Lookup(kinds) ==
    \/ \E data \in IpData : FetchOk(data)
    \/ \E kind \in kinds : FetchFail(kind)

Keys(texts, maxHistory) ==
    \/ \E text \in texts : ChangeInput(text)
    \/ Len(commandHistory) < maxHistory /\ KeyEnter
    \/ KeyArrowUp
    \/ KeyArrowDown

\* the page, with at most MaxHistory commands entered
Next ==
    \/ Mount
    \/ Timers
    \/ Lookup({"network_error"})
    \/ Keys(Inputs, MaxHistory)
    \/ ManualRestart
    \/ Unmount

Spec == Init /\ [][Next]_vars

\* the page, with few texts and at most MaxNavHistory commands entered
NextNav ==
    \/ Mount
    \/ Timers
    \/ Lookup({"network_error"})
    \/ Keys(NavInputs, MaxNavHistory)
    \/ ManualRestart
    \/ Unmount

SpecNav == Init /\ [][NextNav]_vars

\* fetchIPInfo alone, called with any retries in 0..MaxRetries
NextFetch ==
    \/ FetchCall
    \/ \E data \in IpData : FetchOk(data)
    \/ \E kind \in Failures : FetchFail(kind)
    \/ FetchBackoff

SpecFetch == Init /\ [][NextFetch]_vars

\* the texts of specification SpecLive
LiveInputs == { <<"help">>, <<"flipthebits">> }

\* The page with the timeouts of the exit sequence firing when they are due:
\* a scheduled timeout that is not cleared runs in the end.
NextLive ==
    \/ Mount
    \/ Timers
    \/ Lookup({"network_error"})
    \/ Keys(LiveInputs, MaxLiveHistory)
    \/ ManualRestart
    \/ Unmount

SpecLive ==
    /\ Init
    /\ [][NextLive]_vars
    /\ WF_vars(ExitInitial)
    /\ WF_vars(TypeExitSequence)
    /\ WF_vars(ShowBSOD)

\* The page with the timeouts of the exit sequence and of the countdown
\* firing when they are due.
SpecBsod ==
    /\ Init
    /\ [][NextLive]_vars
    /\ WF_vars(ExitInitial)
    /\ WF_vars(TypeExitSequence)
    /\ WF_vars(ShowBSOD)
    /\ WF_vars(CountdownTick)

\* ------------------------------------------------------------- CodeRain
\* const fontSize = 14
FontSize == 14

\* the sizes the window takes
WindowWidths == {14, 20, 42}

WindowHeights == {14, 28}

\* The number of passes of `for (let i = 0; i < columns; i++)` with
\* columns = width / fontSize, a number that need not be whole: the least
\* integer that is not below width / fontSize.
ColumnCount(width) == (width + FontSize - 1) \div FontSize

\* the effect of CodeRain: the canvas takes the window's size, one drop per
\* column starts at row 1, the interval and the resize listener are set
RainMount ==
    /\ rainLife = "new"
    /\ rainLife' = "mounted"
    /\ canvasWidth' = innerWidth
    /\ canvasHeight' = innerHeight
    /\ drops' = [i \in 1..ColumnCount(innerWidth) |-> 1]
    /\ UNCHANGED << innerWidth, innerHeight, terminalVars >>

\* The interval fires: draw.  A drop below the canvas goes back to the top
\* or not (Math.random() > 0.975), then every drop moves one row down; a drop
\* at row MaxDrop is one that goes back.
Draw ==
    /\ rainLife = "mounted"
    /\ \E reset \in SUBSET { i \in 1..Len(drops) : drops[i] * FontSize > canvasHeight } :
        /\ \A i \in 1..Len(drops) : drops[i] < MaxDrop \/ i \in reset
        /\ drops' = [i \in 1..Len(drops) |-> (IF i \in reset THEN 0 ELSE drops[i]) + 1]
    /\ UNCHANGED << rainLife, innerWidth, innerHeight, canvasWidth, canvasHeight,
                    terminalVars >>

\* The user resizes the window; handleResize runs when the listener is set.
Resize(width, height) ==
    /\ rainLife # "unmounted"
    /\ << width, height >> # << innerWidth, innerHeight >>
    /\ innerWidth' = width
    /\ innerHeight' = height
    /\ IF rainLife = "mounted"
         THEN canvasWidth' = width /\ canvasHeight' = height
         ELSE UNCHANGED << canvasWidth, canvasHeight >>
    /\ UNCHANGED << rainLife, drops, terminalVars >>

\* the cleanup of the effect: clearInterval and removeEventListener
RainUnmount ==
    /\ rainLife = "mounted"
    /\ rainLife' = "unmounted"
    /\ UNCHANGED << innerWidth, innerHeight, canvasWidth, canvasHeight, drops,
                    terminalVars >>

\* CodeRain alone
NextRain ==
    \/ RainMount
    \/ Draw
    \/ \E width \in WindowWidths, height \in WindowHeights : Resize(width, height)
    \/ RainUnmount

SpecRain == Init /\ [][NextRain]_vars

\* ------------------------------------------------------------- claims
\* the phase of the page's life: 1 typing, 2 interactive, 3 exit sequence,
\* 4 crash screen, 5 reload
Phase ==
    CASE life = "reloaded" -> 5
      [] showBSOD -> 4
      [] isExitSequenceActive -> 3
      [] isInteractive -> 2
      [] OTHER -> 1

\* C1: while the component is on the page, a step leaves the phase as it is
\* or moves it to the next one (typing, interactive, exit sequence, crash
\* screen, reload); the terminal is never interactive once the exit sequence
\* is active, and the crash screen shows only with the exit sequence active
\* and its script typed to the end.
C1_PhasesAdvanceInOrder ==
    [][life' # "unmounted" =>
          /\ Phase' \in {Phase, Phase + 1}
          /\ isExitSequenceActive' => ~isInteractive'
          /\ showBSOD' => /\ isExitSequenceActive'
                          /\ exitLineIndex' = Len(ExitSequence)]_vars

C1_Witness == life = "reloaded" /\ showBSOD /\ isExitSequenceActive /\ ~isInteractive

\* C3: the step that makes the terminal interactive leaves exactly the 14
\* lines of the boot script in the terminal, each whole, and the terminal is
\* interactive only when typeCharacter has gone through all the script.
C3_InteractiveAfterWholeScript ==
    [][/\ isInteractive' => lineIndex' >= Len(BootLines(ipInfoRef'))
       /\ (~isInteractive /\ isInteractive') =>
             /\ terminalLines' = BootLines(ipInfoRef')
             /\ Len(terminalLines') = 14]_vars

C3_Witness ==
    /\ isInteractive
    /\ commandHistory = <<>>
    /\ ipInfoRef # FALLBACK
    /\ terminalLines = BootLines(ipInfoRef)

\* C4: when fetchIPInfo has returned, its result is the fallback string if
\* the blocked heuristic held or no attempt succeeded (whatever retries is,
\* 0 included), and otherwise it is the formatted answer of its last attempt,
\* which succeeded; it made at most `retries` attempts.
C4_FallbackOnAnyFailure ==
    fetchPc = "returned" =>
        /\ Len(fetchLog) <= retries
        /\ (isLikelyBlocked \/ \A i \in 1..Len(fetchLog) : fetchLog[i] \in Failures)
              => fetchResult = FALLBACK
        /\ fetchResult # FALLBACK =>
              /\ fetchLog # <<>>
              /\ Last(fetchLog) = "ok"
              /\ \E data \in IpData : fetchResult = FormatIp(data)

C4_Witness ==
    /\ fetchPc = "returned"
    /\ ~isLikelyBlocked
    /\ retries >= 2
    /\ Len(fetchLog) = retries
    /\ \A i \in 1..Len(fetchLog) : fetchLog[i] \in Failures
    /\ fetchResult = FALLBACK

\* C2: once the exit sequence is active, the crash screen shows in the end,
\* unless the component leaves the page first.
C2_ExitSequenceFinishes ==
    isExitSequenceActive ~> (showBSOD \/ life # "mounted")

C2_Witness ==
    /\ life = "mounted"
    /\ showBSOD
    /\ exitLineIndex = Len(ExitSequence)
    /\ Len(terminalLines) >= Len(ExitSequence)

\* C5: once the component is unmounted no timer of it runs: the timers and
\* the closures of the animations stay as they are.
C5_NoTimerAfterUnmount ==
    [][life = "unmounted" =>
          UNCHANGED << timers, headerI, lineIndex, charIndex, exitLineIndex,
                       exitCharIndex >>]_vars

\* C6: after a command of the README's list, the terminal does not show the
\* answer to an unknown command.
C6_ReadmeCommandsAnswered ==
    (commandHistory # <<>> /\ CmdOf(Last(commandHistory)) \in ReadmeCommands) =>
        ~(Len(terminalLines) >= 2 /\ terminalLines[2] = <<"[ACCESS DENIED]">>)

\* a step of Enter that submitted a command
Entered == Len(commandHistory') = Len(commandHistory) + 1

\* C7: Enter on clear leaves the terminal with no line.
C7_ClearEmptiesTerminal ==
    [][(Entered /\ CmdOf(Last(commandHistory')) = <<"clear">>) =>
          terminalLines' = <<>>]_vars

C7_Witness ==
    /\ life = "mounted"
    /\ Len(commandHistory) = 2
    /\ commandHistory[1] = <<"help">>
    /\ commandHistory[2] = <<"clear">>
    /\ terminalLines = <<>>

\* C8: Enter on flipthebits, flipbits or flip makes the exit sequence active,
\* ends the interactive phase and calls onExitTriggered(true), and the exit
\* sequence becomes active in no other step.
C8_OnlyFlipStartsExit ==
    [][LET flip == /\ Entered
                   /\ CmdOf(Last(commandHistory')) \in
                         { <<"flipthebits">>, <<"flipbits">>, <<"flip">> }
       IN  /\ flip => /\ isExitSequenceActive'
                      /\ ~isInteractive'
                      /\ onExitTriggeredCalls' = Append(onExitTriggeredCalls, TRUE)
           /\ (~isExitSequenceActive /\ isExitSequenceActive') => flip
           /\ onExitTriggeredCalls' # onExitTriggeredCalls => flip]_vars

C8_Witness ==
    /\ life = "mounted"
    /\ commandHistory = << <<"flipbits">> >>
    /\ isExitSequenceActive
    /\ ~isInteractive
    /\ onExitTriggeredCalls = <<TRUE>>

\* what the claim says of ArrowUp
ArrowUpClaimed ==
    IF commandHistory = <<>>
      THEN UNCHANGED vars
      ELSE /\ historyIndex' = CASE historyIndex = -1 -> Len(commandHistory) - 1
                                [] historyIndex = 0 -> 0
                                [] OTHER -> historyIndex - 1
           /\ userInput' = commandHistory[historyIndex' + 1]

\* what the claim says of ArrowDown
ArrowDownClaimed ==
    CASE historyIndex = -1 -> UNCHANGED vars
      [] historyIndex = Len(commandHistory) - 1 ->
           historyIndex' = -1 /\ userInput' = <<>>
      [] OTHER ->
           /\ historyIndex' = historyIndex + 1
           /\ userInput' = commandHistory[historyIndex' + 1]

\* C9: ArrowUp selects the newest command when not browsing, then one older
\* at a time down to the oldest, where it stays; ArrowDown selects one newer
\* and leaves browsing with an empty input from the newest; ArrowUp on an
\* empty history and ArrowDown when not browsing change nothing; the entry a
\* key lands on is in the input.
C9_HistoryNavigation ==
    [][/\ KeyArrowUp => ArrowUpClaimed
       /\ KeyArrowDown => ArrowDownClaimed
       /\ historyIndex' \in -1..(Len(commandHistory') - 1)]_vars

C9_Witness ==
    /\ Len(commandHistory) = 3
    /\ historyIndex = 0
    /\ userInput = commandHistory[1]
    /\ commandHistory[1] # commandHistory[3]

\* C10: once executeExit has been called, no step changes the input, the
\* history or the history index, and the terminal's lines change only in a
\* step of the exit animation.
C10_NoInputDuringExit ==
    [][(onExitTriggeredCalls # <<>> /\ life = "mounted" /\ life' = "mounted") =>
          /\ UNCHANGED << userInput, commandHistory, historyIndex >>
          /\ terminalLines' # terminalLines =>
                << exitLineIndex, exitCharIndex >>' # << exitLineIndex, exitCharIndex >>]_vars

C10_Witness ==
    /\ life = "mounted"
    /\ onExitTriggeredCalls # <<>>
    /\ showBSOD
    /\ showRestartButton

\* C11: every call onExitTriggered(true) is followed, in the end, by a call
\* onExitTriggered(false).
C11_ExitTriggeredFalseFollows ==
    (onExitTriggeredCalls # <<>> /\ Last(onExitTriggeredCalls) = TRUE)
        ~> (onExitTriggeredCalls # <<>> /\ Last(onExitTriggeredCalls) = FALSE)

\* C12: while the page exists, the header and the footer get the same
\* isVisible, and it is the negation of isExitSequenceActive: both show in
\* the typing and the interactive phases and are hidden from the start of the
\* exit sequence on.
C12_HeaderFooterHiddenInExit ==
    life # "unmounted" =>
        /\ HeaderIsVisible = FooterIsVisible
        /\ HeaderIsVisible = ~isExitSequenceActive
        /\ showHeaderFooter = ~isExitSequenceActive
        /\ Phase \in {1, 2} => HeaderIsVisible

C12_Witness ==
    /\ life = "mounted"
    /\ isExitSequenceActive
    /\ showBSOD
    /\ ~HeaderIsVisible
    /\ ~FooterIsVisible

\* a step in which fetchIPInfo returns to the mounted component
LookupReturns == life = "mounted" /\ fetchPc # "returned" /\ fetchPc' = "returned"

\* C13: the step in which fetchIPInfo returns changes, of the terminal, only
\* the network_trace line of the boot script (the third line, while no
\* command has been entered); every other line, the number of lines, the
\* history, the input and the phase flags stay as they are.
C13_LookupOnlyRewritesBootLine ==
    [][LookupReturns =>
          /\ Len(terminalLines') = Len(terminalLines)
          /\ \A i \in 1..Len(terminalLines) :
                terminalLines'[i] # terminalLines[i] =>
                    /\ commandHistory = <<>>
                    /\ ~isExitSequenceActive
                    /\ i = 3
          /\ UNCHANGED << commandHistory, userInput, historyIndex, isTypingLine,
                          isInteractive, isExitSequenceActive, showBSOD >>]_vars

\* the typing phase of the page
TypingPhase == life = "mounted" /\ ~isInteractive /\ ~isExitSequenceActive

\* tl is the first lines of script, each whole but the last, which is a
\* prefix of its line
PrefixInProgress(tl, script) ==
    /\ Len(tl) <= Len(script)
    /\ \A i \in 1..Len(tl) :
          IF i < Len(tl)
            THEN tl[i] = script[i]
            ELSE tl[i] = Slice(script[i], Len(tl[i]))

\* C14: in the typing phase the terminal holds whole lines of the boot
\* script and then one prefix of the next line; a line is started only when
\* the one before is whole, and from a state to the next the last line does
\* not shrink and grows by one character at most, also when the IP lookup
\* returns.
C14_BootTypedOneCharacterAtATime ==
    [][(TypingPhase /\ TypingPhase') =>
          LET a == terminalLines
              b == terminalLines'
              script == BootLines(ipInfoRef)
          IN  /\ PrefixInProgress(b, BootLines(ipInfoRef'))
              /\ Len(b) \in {Len(a), Len(a) + 1}
              /\ Len(b) = Len(a) + 1 =>
                    /\ a = <<>> \/ Last(a) = script[Len(a)]
                    /\ Len(Last(b)) <= 1
              /\ (Len(b) = Len(a) /\ a # <<>>) =>
                    Len(Last(b)) - Len(Last(a)) \in {0, 1}]_vars

\* C16: while the exit sequence runs, the terminal holds nothing but the
\* text of the exit script: whole lines of it and then one prefix of the next
\* line, with no echoed command before them.
C16_ExitStartsFromClearedTerminal ==
    (life = "mounted" /\ isExitSequenceActive) =>
        PrefixInProgress(terminalLines, ExitSequence)

\* what C17 says of a state
CountdownInRange ==
    /\ countdown \in 0..7
    /\ showRestartButton => (showBSOD /\ countdown = 0)
    /\ "countdown" \in timers => (showBSOD /\ countdown > 0)

\* C17: the countdown stays in 0..7 and is 7 when the crash screen appears; it
\* changes only on the crash screen, by the tick of its timeout and by one
\* down; a countdown timeout is scheduled only by the step that shows the
\* crash screen, when none is pending, or by the tick of the one before; the
\* restart button shows only on the crash screen at zero, and once the crash
\* screen is shown it shows in the end, unless the component leaves the page.
C17_CountdownToRestart ==
    /\ CountdownInRange
    /\ [][life' # "unmounted" =>
             /\ CountdownInRange'
             /\ (~showBSOD /\ showBSOD') => countdown' = 7
             /\ countdown' # countdown =>
                   /\ showBSOD
                   /\ "countdown" \in timers
                   /\ countdown' = countdown - 1
             /\ ("countdown" \in timers' /\ "countdown" \notin timers) =>
                   (~showBSOD /\ showBSOD')
             /\ ("countdown" \in timers' /\ "countdown" \in timers) =>
                   (countdown' = countdown - 1 \/ UNCHANGED << countdown, showBSOD >>)
             /\ (showBSOD' /\ countdown' = 0 /\ life' = "mounted") =>
                   showRestartButton']_vars
    /\ (life = "mounted" /\ showBSOD) ~> (showRestartButton \/ life # "mounted")

C17_Witness ==
    /\ life = "mounted"
    /\ showBSOD
    /\ countdown = 0
    /\ showRestartButton
    /\ "countdown" \notin timers

\* C15: while CodeRain is mounted, the canvas has the size of the window and
\* there are at least canvas.width / fontSize columns of rain.
C15_RainCoversCanvas ==
    rainLife = "mounted" =>
        /\ canvasWidth = innerWidth
        /\ canvasHeight = innerHeight
        /\ Len(drops) * FontSize >= canvasWidth

=============================================================================
